---- MODULE Spec2Model ----
(***************************************************************************)
(* Customer vetting: the concurrent data gathering pipeline                *)
(* (src/pipeline.py), its Streamlit caller (src/app.py) and the adapters   *)
(* it fans out to (src/utils/*.py).                                        *)
(*                                                                         *)
(* Python values are tagged records.  A Python str is a sequence of text   *)
(* fragments (Str(<<"a", "b">>) is the string "ab"); concatenation is \o.  *)
(* User input is written one character per fragment so that str.strip()   *)
(* can be computed.                                                        *)
(***************************************************************************)
EXTENDS Integers, Sequences, FiniteSets, TLC

\* Number of times the user runs the program in one session.
MaxRuns == 2

(***************************************************************************)
(* Python values                                                           *)
(***************************************************************************)
PyNone == [t |-> "None"]
Str(frags) == [t |-> "str", s |-> frags]
Dict(items) == [t |-> "dict", items |-> items]
List(elems) == [t |-> "list", elems |-> elems]
PyBool(b) == [t |-> "bool", v |-> b]
PyBytes(b) == [t |-> "bytes", b |-> b]

\* bool(v)
Truthy(v) ==
    CASE v.t = "None" -> FALSE
      [] v.t = "str"  -> v.s # <<>>
      [] v.t = "dict" -> v.items # <<>>
      [] v.t = "list" -> v.elems # <<>>
      [] v.t = "bool" -> v.v
      [] v.t = "bytes" -> v.b # <<>>

\* str(v) / f"{v}" for the values that reach an f-string
PyStr(v) == IF v.t = "None" THEN <<"None">> ELSE v.s

RECURSIVE LStrip(_)
LStrip(s) == IF s # <<>> /\ Head(s) = " " THEN LStrip(Tail(s)) ELSE s

RECURSIVE RStrip(_)
RStrip(s) ==
    IF s # <<>> /\ s[Len(s)] = " " THEN RStrip(SubSeq(s, 1, Len(s) - 1)) ELSE s

\* str.strip()
Strip(v) == Str(RStrip(LStrip(v.s)))

\* sep.join(parts)
RECURSIVE Join(_, _)
Join(parts, sep) ==
    IF parts = <<>> THEN <<>>
    ELSE IF Len(parts) = 1 THEN parts[1]
    ELSE parts[1] \o sep \o Join(Tail(parts), sep)

\* The outcome of a call: it returns a value or raises an exception.
Return(v) == [kind |-> "return", value |-> v]
Raise(exc, msg) == [kind |-> "raise", exc |-> exc, msg |-> msg]

(***************************************************************************)
(* The external services.  Each one is a deterministic stub: it answers    *)
(* (up), refuses the connection (down) or, for the business register,      *)
(* answers that no company matches the name (empty).                       *)
(***************************************************************************)
Keys == <<"linkedin_details", "linkedin_posts", "website_traffic",
          "abn_lookup", "web_search">>

KeySet == {Keys[i] : i \in DOMAIN Keys}

Cause == <<"connection refused">>

Envs ==
    {e \in [KeySet -> {"up", "down", "empty"}] :
        \A k \in KeySet : e[k] = "empty" => k = "abn_lookup"}

get_linkedin_company_details(company_url, svc) ==
    IF svc = "up"
    THEN Return(Dict(<< <<"name", Str(<<"profile of ">> \o company_url.s)>> >>))
    ELSE Raise("Exception",
               <<"Error fetching LinkedIn company details: ">> \o Cause)

get_linkedin_company_posts(company_url, limit, svc) ==
    IF svc = "up"
    THEN Return(List(<< Dict(<< <<"text", Str(<<"post of ">> \o company_url.s)>> >>) >>))
    ELSE Raise("Exception",
               <<"Error fetching LinkedIn company posts: ">> \o Cause)

get_website_traffic(domain, svc) ==
    IF svc = "up"
    THEN Return(Dict(<< <<"visits", Str(<<"visits of ">> \o domain.s)>> >>))
    ELSE Raise("Exception",
               <<"Error fetching website traffic data: ">> \o Cause)

search_abn_by_name(company_name, svc) ==
    CASE svc = "up"    -> Return(List(<< Dict(<< <<"abn", Str(<<"51824753556">>)>> >>),
                                         Dict(<< <<"abn", Str(<<"14603455509">>)>> >>) >>))
      [] svc = "empty" -> Return(List(<<>>))
      [] svc = "down"  -> Raise("Exception",
                                <<"Error searching ABN Lookup: ">> \o Cause)

get_abn_details(abn, svc) ==
    IF svc = "down"
    THEN Raise("Exception", <<"Error fetching ABN details: ">> \o Cause)
    ELSE Return(Dict(<< <<"abn", abn>>,
                        <<"entity_name",
                          Str(IF svc = "up" THEN <<"entity of ">> \o abn.s
                                            ELSE <<"N/A">>)>> >>))

lookup_company(company_name, abn, svc) ==
    IF ~Truthy(company_name) /\ ~Truthy(abn)
    THEN Raise("ValueError", <<"Either company_name or abn must be provided">>)
    ELSE IF Truthy(abn)
    THEN get_abn_details(abn, svc)
    ELSE LET search_results == search_abn_by_name(company_name, svc)
         IN  IF search_results.kind = "raise" THEN search_results
             ELSE IF ~Truthy(search_results.value) THEN Return(PyNone)
             ELSE get_abn_details(search_results.value.elems[1].items[1][2], svc)

search_company(company_name, svc) ==
    IF svc = "up"
    THEN Return(Dict(<< <<"company_name", company_name>>,
                        <<"searches", List(<<>>)>> >>))
    ELSE Raise("Exception", <<"Error searching for company: ">> \o Cause)

(***************************************************************************)
(* run_vetting_pipeline                                                    *)
(***************************************************************************)
PendingEntry == [status |-> "pending", data |-> PyNone, error |-> PyNone]

\* the results structure of a fresh call
InitialResults(company_name, linkedin_url, website_domain, abn) ==
    [company_name |-> company_name,
     inputs |-> [linkedin_url |-> linkedin_url,
                 website_domain |-> website_domain,
                 abn |-> abn],
     data_sources |-> [k \in KeySet |-> PendingEntry]]

\* a tasks list whose web search is given the LinkedIn URL
TaskArgs_WrongField(k, req) ==
    CASE k = "linkedin_details" -> <<req.linkedin_url>>
      [] k = "linkedin_posts"   -> <<req.linkedin_url, 10>>
      [] k = "website_traffic"  -> <<req.website_domain>>
      [] k = "abn_lookup"       -> <<req.company_name, req.abn>>
      [] k = "web_search"       -> <<req.linkedin_url>>

\* the args of the entry of key k in the tasks list, for the parameters req
TaskArgs(k, req) ==
    CASE k = "linkedin_details" -> <<req.linkedin_url>>
      [] k = "linkedin_posts"   -> <<req.linkedin_url, 10>>
      [] k = "website_traffic"  -> <<req.website_domain>>
      [] k = "abn_lookup"       -> <<req.company_name, req.abn>>
      [] k = "web_search"       -> <<req.company_name>>

\* func(*args) for the entry of key k in the tasks list
CallTask(k, args, svc) ==
    CASE k = "linkedin_details" -> get_linkedin_company_details(args[1], svc)
      [] k = "linkedin_posts"   -> get_linkedin_company_posts(args[1], args[2], svc)
      [] k = "website_traffic"  -> get_website_traffic(args[1], svc)
      [] k = "abn_lookup"       -> lookup_company(args[1], args[2], svc)
      [] k = "web_search"       -> search_company(args[1], svc)

\* what the task of key k computes for the request recorded in res
RunTask(k, res, e) ==
    CallTask(k,
             TaskArgs(k, [company_name |-> res.company_name,
                          linkedin_url |-> res.inputs.linkedin_url,
                          website_domain |-> res.inputs.website_domain,
                          abn |-> res.inputs.abn]),
             e[k])

\* a handler that catches only the class Exception itself
IsException_OnlyBase(exc) == exc = "Exception"

\* except Exception: the classes the handler of the as_completed loop catches
IsException(exc) ==
    exc \in {"Exception", "ValueError", "KeyError", "TypeError", "AttributeError"}

\* a handler that stores the message and forgets the status
RecordOutcome_KeepsPending(entry, outcome) ==
    IF outcome.kind = "return"
    THEN [entry EXCEPT !.status = "success", !.data = outcome.value]
    ELSE [entry EXCEPT !.error = Str(outcome.msg)]

\* a handler that also keeps the message as the data of the entry
RecordOutcome_ErrorAsData(entry, outcome) ==
    IF outcome.kind = "return"
    THEN [entry EXCEPT !.status = "success", !.data = outcome.value]
    ELSE [entry EXCEPT !.status = "error", !.data = Str(outcome.msg),
                       !.error = Str(outcome.msg)]

\* the body of the as_completed loop for one finished future
RecordOutcome(entry, outcome) ==
    IF outcome.kind = "return"
    THEN [entry EXCEPT !.status = "success", !.data = outcome.value]
    ELSE [entry EXCEPT !.status = "error", !.error = Str(outcome.msg)]

\* a count that uses the filter of total_count
success_count_NotSkipped(res) ==
    Cardinality({k \in DOMAIN res.data_sources :
                    res.data_sources[k].status # "skipped"})

success_count(res) ==
    Cardinality({k \in DOMAIN res.data_sources :
                    res.data_sources[k].status = "success"})

\* a denominator that counts the successes
total_count_Successes(res) ==
    Cardinality({k \in DOMAIN res.data_sources :
                    res.data_sources[k].status = "success"})

total_count(res) ==
    Cardinality({k \in DOMAIN res.data_sources :
                    res.data_sources[k].status # "skipped"})

(***************************************************************************)
(* format_results_for_report                                               *)
(***************************************************************************)
RECURSIVE Indent(_)
Indent(d) == IF d = 0 THEN <<>> ELSE <<"  ">> \o Indent(d - 1)

\* json.dumps(v, indent=2, ensure_ascii=False), at nesting depth d.  The
\* fragments of the model hold no character that JSON escapes.
RECURSIVE JsonDumps(_, _), JsonItems(_, _), JsonElems(_, _)
JsonDumps(v, d) ==
    CASE v.t = "None" -> <<"null">>
      [] v.t = "str"  -> <<"\"">> \o v.s \o <<"\"">>
      [] v.t = "dict" ->
            IF v.items = <<>> THEN <<"{}">>
            ELSE <<"{">> \o JsonItems(v.items, d + 1)
                         \o <<"\n">> \o Indent(d) \o <<"}">>
      [] v.t = "list" ->
            IF v.elems = <<>> THEN <<"[]">>
            ELSE <<"[">> \o JsonElems(v.elems, d + 1)
                         \o <<"\n">> \o Indent(d) \o <<"]">>

JsonItems(items, d) ==
    IF items = <<>> THEN <<>>
    ELSE <<"\n">> \o Indent(d) \o <<"\"", items[1][1], "\"", ": ">>
            \o JsonDumps(items[1][2], d)
            \o (IF Len(items) > 1 THEN <<",">> ELSE <<>>)
            \o JsonItems(Tail(items), d)

JsonElems(elems, d) ==
    IF elems = <<>> THEN <<>>
    ELSE <<"\n">> \o Indent(d) \o JsonDumps(elems[1], d)
            \o (IF Len(elems) > 1 THEN <<",">> ELSE <<>>)
            \o JsonElems(Tail(elems), d)

\* dict.get(key)
DictGet(v, key) ==
    LET hits == {i \in DOMAIN v.items : v.items[i][1] = key}
    IN  IF hits = {} THEN PyNone
        ELSE v.items[CHOOSE i \in hits : \A j \in hits : j <= i][2]

\* {k: v for k, v in data.items() if k != key}
RECURSIVE DictWithout(_, _)
DictWithout(items, key) ==
    IF items = <<>> THEN <<>>
    ELSE (IF items[1][1] = key THEN <<>> ELSE <<items[1]>>)
            \o DictWithout(Tail(items), key)

\* the sections in the order the function emits them
SectionKeys == Keys \o <<"creditorwatch">>

SectionHeader(k) ==
    CASE k = "linkedin_details" -> <<"\n### LINKEDIN COMPANY DETAILS ###">>
      [] k = "linkedin_posts"   -> <<"\n### LINKEDIN RECENT POSTS ###">>
      [] k = "website_traffic"  -> <<"\n### WEBSITE TRAFFIC (SIMILARWEB) ###">>
      [] k = "abn_lookup"       -> <<"\n### ABN LOOKUP (AUSTRALIAN BUSINESS REGISTER) ###">>
      [] k = "web_search"       -> <<"\n### WEB SEARCH RESULTS ###">>
      [] k = "creditorwatch"    -> <<"\n### CREDITORWATCH (FINANCIAL RISK DATA) ###">>

\* a marker that leaves the section empty
Unavailable_Empty(entry) == <<>>

Unavailable(entry) == <<"[Data unavailable: ">> \o PyStr(entry.error) \o <<"]">>

\* a fallback that dumps the payload as it is
SectionBody_WholePayload(k, entry) ==
    IF k = "creditorwatch"
    THEN CASE entry.status = "success" ->
                  IF Truthy(DictGet(entry.data, "gpt_cleaned_text"))
                  THEN DictGet(entry.data, "gpt_cleaned_text").s
                  ELSE JsonDumps(entry.data, 0)
           [] entry.status = "skipped" ->
                  <<"[Skipped: ">> \o PyStr(entry.error) \o <<"]">>
           [] OTHER -> Unavailable(entry)
    ELSE IF entry.status = "success"
         THEN JsonDumps(entry.data, 0)
         ELSE Unavailable(entry)

\* the part appended after the header of section k
SectionBody(k, entry) ==
    IF k = "creditorwatch"
    THEN CASE entry.status = "success" ->
                  IF Truthy(DictGet(entry.data, "gpt_cleaned_text"))
                  THEN DictGet(entry.data, "gpt_cleaned_text").s
                  ELSE JsonDumps(Dict(DictWithout(entry.data.items, "full_text")), 0)
           [] entry.status = "skipped" ->
                  <<"[Skipped: ">> \o PyStr(entry.error) \o <<"]">>
           [] OTHER -> Unavailable(entry)
    ELSE IF entry.status = "success"
         THEN JsonDumps(entry.data, 0)
         ELSE Unavailable(entry)

RECURSIVE SectionParts(_, _)
SectionParts(ks, ds) ==
    IF ks = <<>> THEN <<>>
    ELSE <<SectionHeader(ks[1]), SectionBody(ks[1], ds[ks[1]])>>
            \o SectionParts(Tail(ks), ds)

Rule == <<"============================================================">>

output_parts(pr) ==
    <<<<"COMPANY: ">> \o PyStr(pr.company_name), Rule>>
        \o SectionParts(SectionKeys, pr.data_sources)

format_results_for_report(pr) ==
    LET ds == pr.data_sources
        missing == {i \in DOMAIN SectionKeys : SectionKeys[i] \notin DOMAIN ds}
    IN  IF missing # {}
        THEN Raise("KeyError",
                   <<"'", SectionKeys[CHOOSE i \in missing :
                                         \A j \in missing : i <= j], "'">>)
        ELSE IF ds["creditorwatch"].status = "success"
                /\ ds["creditorwatch"].data.t # "dict"
        THEN Raise("AttributeError", <<"object has no attribute 'get'">>)
        ELSE Return(Str(Join(output_parts(pr), <<"\n">>)))

(***************************************************************************)
(* generate_vetting_report, called with the keyword arguments kwargs       *)
(***************************************************************************)
generate_vetting_report(kwargs, llm) ==
    IF DOMAIN kwargs # {"documents_text", "web_research"}
    THEN Raise("TypeError",
               <<"generate_vetting_report() got an unexpected keyword argument">>)
    ELSE IF llm = "up"
    THEN Return(Str(<<"report on: ">> \o kwargs.documents_text.s))
    ELSE Raise("Exception", <<"Error generating report: ">> \o Cause)

(***************************************************************************)
(* State                                                                   *)
(***************************************************************************)
VARIABLES
    entry,      \* how the program was started: "app" (streamlit) or "cli"
    env,        \* the external services, fixed for the session
    run,        \* number of runs started
    pc,         \* position of the main thread
    results,    \* the results dict of the run_vetting_pipeline call in progress
    submitted,  \* number of tasks submitted to the executor
    future,     \* key -> state of its future
    yielded,    \* keys whose future as_completed has yielded
    invoked,    \* key -> number of times its adapter was called in this run
    summary,    \* success_count and total_count of the Summary lines
    returned,   \* the results returned by run_vetting_pipeline, oldest first
    formatted,  \* outcome of the last format_results_for_report call
    ui,         \* what the last run showed to the user
    request,    \* the arguments of the run_vetting_pipeline call in progress
    received,   \* key -> the arguments its adapter was called with
    iso,        \* invocation -> state of a run_creditorwatch_in_subprocess call
    fs,         \* file name -> the file of that name in the temp directory
    calls,      \* caller -> state of a concurrent run_vetting_pipeline call
    fn          \* one adapter call followed step by step: position, locals, effects

\* the state outside the single pipeline run
others == <<iso, fs, calls, fn>>

\* the value of that state while it plays no part
Idle == <<>>

\* the state of the pipeline, of app.main and of pipeline.main
main_vars == <<entry, env, run, pc, results, submitted, future, yielded, invoked,
               summary, returned, formatted, ui, request, received>>

vars == <<main_vars, others>>

NoArgs == <<>>

NoCall == [kind |-> "none"]
Unsubmitted == [kind |-> "unsubmitted"]
Running == [kind |-> "running"]

\* what the user may type into the four fields
UserInputs ==
    {[company_name |-> Str(<<"A">>), linkedin_url |-> Str(<<"L">>),
      website_domain |-> Str(<<"W">>), abn |-> Str(<<"51 824 753 556">>)],
     [company_name |-> Str(<<" ", "A", " ">>), linkedin_url |-> Str(<<"L">>),
      website_domain |-> Str(<<"W">>), abn |-> Str(<<>>)],
     [company_name |-> Str(<<" ">>), linkedin_url |-> Str(<<"L">>),
      website_domain |-> Str(<<"W">>), abn |-> Str(<<>>)],
     [company_name |-> Str(<<"A">>), linkedin_url |-> Str(<<>>),
      website_domain |-> Str(<<"W">>), abn |-> Str(<<"51 824 753 556">>)]}

Init ==
    /\ entry \in {"app", "cli"}
    /\ env \in Envs
    /\ run = 0
    /\ pc = "idle"
    /\ results = PyNone
    /\ submitted = 0
    /\ future = [k \in KeySet |-> Unsubmitted]
    /\ yielded = {}
    /\ invoked = [k \in KeySet |-> 0]
    /\ summary = PyNone
    /\ returned = <<>>
    /\ formatted = NoCall
    /\ ui = <<>>
    /\ request = PyNone
    /\ received = [k \in KeySet |-> NoArgs]
    /\ iso = Idle
    /\ fs = Idle
    /\ calls = Idle
    /\ fn = Idle

\* the frame of a run_vetting_pipeline call up to the executor
CallPipeline(company_name, linkedin_url, website_domain, abn) ==
    /\ request' = [company_name |-> company_name, linkedin_url |-> linkedin_url,
                   website_domain |-> website_domain, abn |-> abn]
    /\ received' = [k \in KeySet |-> NoArgs]
    /\ results' = InitialResults(company_name, linkedin_url, website_domain, abn)
    /\ submitted' = 0
    /\ future' = [k \in KeySet |-> Unsubmitted]
    /\ yielded' = {}
    /\ invoked' = [k \in KeySet |-> 0]
    /\ summary' = PyNone
    /\ pc' = "submit"

\* the validation of app.main
missing_fields(inp) ==
    (IF ~Truthy(inp.company_name) \/ ~Truthy(Strip(inp.company_name))
        THEN <<"Company Name">> ELSE <<>>)
    \o (IF ~Truthy(inp.linkedin_url) \/ ~Truthy(Strip(inp.linkedin_url))
        THEN <<"LinkedIn Company URL">> ELSE <<>>)
    \o (IF ~Truthy(inp.website_domain) \/ ~Truthy(Strip(inp.website_domain))
        THEN <<"Website Domain">> ELSE <<>>)

RECURSIVE CommaJoin(_)
CommaJoin(names) ==
    IF names = <<>> THEN <<>>
    ELSE IF Len(names) = 1 THEN names
    ELSE <<names[1], ", ">> \o CommaJoin(Tail(names))

St(call, text) == [call |-> call, text |-> text]

\* app.main: the button is pressed with the inputs inp
AppMain(inp) ==
    /\ entry = "app"
    /\ pc = "idle"
    /\ run < MaxRuns
    /\ run' = run + 1
    /\ formatted' = NoCall
    /\ IF missing_fields(inp) # <<>>
       THEN /\ ui' = <<St("error", <<"Please fill in the required fields: ">>
                                     \o CommaJoin(missing_fields(inp)))>>
            /\ request' = PyNone
            /\ received' = [k \in KeySet |-> NoArgs]
            /\ results' = PyNone
            /\ submitted' = 0
            /\ future' = [k \in KeySet |-> Unsubmitted]
            /\ yielded' = {}
            /\ invoked' = [k \in KeySet |-> 0]
            /\ summary' = PyNone
            /\ pc' = "idle"
       ELSE /\ ui' = <<>>
            /\ CallPipeline(Strip(inp.company_name), Strip(inp.linkedin_url),
                            Strip(inp.website_domain),
                            IF Truthy(inp.abn) THEN Strip(inp.abn) ELSE PyNone)
    /\ UNCHANGED <<others, entry, env, returned>>

\* pipeline.main: the four input() lines and the call
PipelineMain(inp) ==
    /\ entry = "cli"
    /\ pc = "idle"
    /\ run = 0
    /\ run' = run + 1
    /\ formatted' = NoCall
    /\ ui' = <<>>
    /\ CallPipeline(Strip(inp.company_name), Strip(inp.linkedin_url),
                    Strip(inp.website_domain), Strip(inp.abn))
    /\ UNCHANGED <<others, entry, env, returned>>

\* executor.submit of the next task; max_workers = len(tasks), so a worker
\* thread takes the call at once
Submit ==
    /\ pc = "submit"
    /\ LET key == Keys[submitted + 1]
       IN  /\ future' = [future EXCEPT ![key] = Running]
           /\ invoked' = [invoked EXCEPT ![key] = @ + 1]
           /\ received' = [received EXCEPT ![key] = TaskArgs(key, request)]
    /\ submitted' = submitted + 1
    /\ pc' = IF submitted + 1 = Len(Keys) THEN "collect" ELSE "submit"
    /\ UNCHANGED <<others, request, entry, env, run, results, yielded, summary, returned,
                   formatted, ui>>

\* the worker thread of key k: the adapter returns or raises
TaskFinish(k) ==
    /\ future[k] = Running
    /\ future' = [future EXCEPT ![k] = CallTask(k, received[k], env[k])]
    /\ UNCHANGED <<others, request, received, entry, env, run, pc, results, submitted, yielded, invoked,
                   summary, returned, formatted, ui>>

\* a fail-fast loop: the first failure ends the collection
Collect_FailFast(k) ==
    /\ pc = "collect"
    /\ k \notin yielded
    /\ future[k].kind \in {"return", "raise"}
    /\ yielded' = IF future[k].kind = "raise" THEN KeySet ELSE yielded \cup {k}
    /\ results' = [results EXCEPT
                     !.data_sources[k] = RecordOutcome(@, future[k])]
    /\ UNCHANGED <<others, request, received, entry, env, run, pc, submitted, future, invoked, summary,
                   returned, formatted, ui>>

\* a loop that keeps the key of the submit loop: every outcome is filed
\* under the last key of the tasks list
Collect_StaleKey(k) ==
    /\ pc = "collect"
    /\ k \notin yielded
    /\ future[k].kind \in {"return", "raise"}
    /\ yielded' = yielded \cup {k}
    /\ results' = [results EXCEPT
                     !.data_sources[Keys[Len(Keys)]] =
                        RecordOutcome(@, future[k])]
    /\ UNCHANGED <<others, request, received, entry, env, run, pc, submitted, future, invoked, summary,
                   returned, formatted, ui>>

\* a loop that files every outcome under the first key of the tasks list
Collect_FirstKey(k) ==
    /\ pc = "collect"
    /\ k \notin yielded
    /\ future[k].kind \in {"return", "raise"}
    /\ yielded' = yielded \cup {k}
    /\ results' = [results EXCEPT
                     !.data_sources[Keys[1]] = RecordOutcome(@, future[k])]
    /\ UNCHANGED <<others, request, received, entry, env, run, pc, submitted, future, invoked, summary,
                   returned, formatted, ui>>

\* one iteration of the as_completed loop: any finished future not yet
\* yielded; an exception the handler does not catch leaves the function
Collect(k) ==
    /\ pc = "collect"
    /\ k \notin yielded
    /\ future[k].kind \in {"return", "raise"}
    /\ yielded' = yielded \cup {k}
    /\ IF future[k].kind = "raise" /\ ~IsException(future[k].exc)
       THEN /\ pc' = "raised"
            /\ UNCHANGED results
       ELSE /\ results' = [results EXCEPT
                             !.data_sources[k] = RecordOutcome(@, future[k])]
            /\ UNCHANGED pc
    /\ UNCHANGED <<others, request, received, entry, env, run, submitted, future, invoked, summary,
                   returned, formatted, ui>>

\* a return as soon as one outcome is recorded, with no join of the rest
PipelineReturn_First ==
    /\ pc = "collect"
    /\ yielded # {}
    /\ summary' = [success_count |-> success_count(results),
                   total_count |-> total_count(results)]
    /\ returned' = Append(returned, results)
    /\ pc' = "returned"
    /\ UNCHANGED <<others, request, received, entry, env, run, results,
                   submitted, future, yielded, invoked, formatted, ui>>

\* as_completed is exhausted: the Summary lines and the return
PipelineReturn ==
    /\ pc = "collect"
    /\ yielded = KeySet
    /\ summary' = [success_count |-> success_count(results),
                   total_count |-> total_count(results)]
    /\ returned' = Append(returned, results)
    /\ pc' = "returned"
    /\ UNCHANGED <<others, request, received, entry, env, run, results, submitted, future, yielded,
                   invoked, formatted, ui>>

source_labels(key) ==
    CASE key = "linkedin_details" -> "LinkedIn Company Details"
      [] key = "linkedin_posts"   -> "LinkedIn Recent Posts"
      [] key = "website_traffic"  -> "Website Traffic (SimilarWeb)"
      [] key = "abn_lookup"       -> "ABN Lookup"
      [] key = "web_search"       -> "Web Search Results"
      [] OTHER                    -> key

RECURSIVE StatusLines(_, _)
StatusLines(ks, ds) ==
    IF ks = <<>> THEN <<>>
    ELSE <<St("markdown",
              IF ds[ks[1]].status = "success"
              THEN <<source_labels(ks[1]), ": Retrieved successfully">>
              ELSE <<source_labels(ks[1]), ": ">> \o PyStr(ds[ks[1]].error))>>
            \o StatusLines(Tail(ks), ds)

\* the st.* calls of app.main after run_vetting_pipeline returned, given the
\* outcome of formatting and the state of the language model service
AppDisplay(pipeline_results, fmt, llm) ==
    LET count == success_count(pipeline_results)
        head == <<IF count = 5
                  THEN St("success", <<"All data sources retrieved successfully!">>)
                  ELSE St("warning", <<"Data gathered from ", ToString(count),
                                       "/", "5",
                                       " sources. Some sources may have failed.">>)>>
                 \o StatusLines(Keys, pipeline_results.data_sources)
        report == generate_vetting_report([gathered_data |-> fmt.value], llm)
    IN  IF fmt.kind = "raise"
        THEN head \o <<St("error", <<"An error occurred: ">> \o fmt.msg)>>
        ELSE IF report.kind = "raise"
        THEN head \o <<St("error", <<"An error occurred: ">> \o report.msg)>>
        ELSE head \o <<St("success", <<"Report generated successfully!">>),
                       St("markdown", <<"Vetting Report">>),
                       St("markdown", report.value.s)>>

\* app.main from the data gathering summary to the end of the try statement
AppFinish ==
    /\ entry = "app"
    /\ pc = "returned"
    /\ formatted' = format_results_for_report(results)
    /\ \E llm \in {"up", "down"} : ui' = AppDisplay(results, formatted', llm)
    /\ pc' = "idle"
    /\ UNCHANGED <<others, request, received, entry, env, run, results, submitted, future, yielded,
                   invoked, summary, returned>>

\* pipeline.main after the call: format and print, with no handler around it
CliFinish ==
    /\ entry = "cli"
    /\ pc = "returned"
    /\ formatted' = format_results_for_report(results)
    /\ ui' = IF formatted'.kind = "raise"
             THEN <<St("traceback", formatted'.msg)>>
             ELSE <<St("print", formatted'.value.s)>>
    /\ pc' = "exit"
    /\ UNCHANGED <<others, request, received, entry, env, run, results, submitted, future, yielded,
                   invoked, summary, returned>>

Next ==
    \/ \E inp \in UserInputs : AppMain(inp)
    \/ \E inp \in UserInputs : PipelineMain(inp)
    \/ Submit
    \/ \E k \in KeySet : TaskFinish(k)
    \/ \E k \in KeySet : Collect(k)
    \/ PipelineReturn
    \/ AppFinish
    \/ CliFinish

Spec == Init /\ [][Next]_vars

\* The executor runs every submitted call, every adapter call ends, and the
\* main thread keeps running.
Fairness ==
    /\ WF_vars(Submit)
    /\ \A k \in KeySet : WF_vars(TaskFinish(k))
    /\ WF_vars(\E k \in KeySet : Collect(k))
    /\ WF_vars(PipelineReturn)

\* one run of pipeline.main
InitCli == Init /\ entry = "cli"

NextCli ==
    \/ \E inp \in UserInputs : PipelineMain(inp)
    \/ Submit
    \/ \E k \in KeySet : TaskFinish(k)
    \/ \E k \in KeySet : Collect(k)
    \/ PipelineReturn
    \/ CliFinish

FairSpec == InitCli /\ [][NextCli]_vars /\ Fairness

(***************************************************************************)
(* format_results_for_report as a function of its argument: the argument   *)
(* is drawn from result dicts that hold all six sections.                  *)
(***************************************************************************)
Success(data) == [status |-> "success", data |-> data, error |-> PyNone]
Error(msg) == [status |-> "error", data |-> PyNone, error |-> Str(msg)]
Skipped(reason) == [status |-> "skipped", data |-> PyNone, error |-> Str(reason)]

Failures == {Error(Cause), Error(<<>>), Skipped(<<"no ABN provided">>)}

SectionInputs(k) ==
    Failures \cup
    CASE k = "linkedin_details" ->
            {Success(Dict(<< <<"name", Str(<<"N/A">>)>> >>))}
      [] k = "linkedin_posts" ->
            {Success(List(<<>>)),
             Success(List(<< Dict(<< <<"text", Str(<<"N/A">>)>> >>) >>))}
      [] k = "website_traffic" ->
            {Success(Dict(<< <<"visits", Str(<<"N/A">>)>>,
                             <<"top_traffic_sources", Dict(<<>>)>> >>))}
      [] k = "abn_lookup" ->
            {Success(PyNone),
             Success(Dict(<< <<"abn", PyNone>>, <<"business_names", List(<<>>)>> >>))}
      [] k = "web_search" ->
            {Success(Dict(<< <<"company_name", Str(<<>>)>>,
                             <<"searches", List(<<>>)>> >>))}
      [] k = "creditorwatch" ->
            {Success(Dict(<<>>)),
             Success(Dict(<< <<"abn", Str(<<"51824753556">>)>>,
                             <<"full_text", Str(<<"raw page text">>)>>,
                             <<"gpt_cleaned_text", Str(<<"cleaned text">>)>> >>)),
             Success(Dict(<< <<"abn", Str(<<"51824753556">>)>>,
                             <<"full_text", Str(<<"raw page text">>)>>,
                             <<"gpt_cleaned_text", Str(<<>>)>> >>)),
             Success(Dict(<< <<"full_text", Str(<<"raw page text">>)>> >>))}

SectionKeySet == {SectionKeys[i] : i \in DOMAIN SectionKeys}

\* the argument of the call, built from one entry per section
FormatterInput(ld, lp, wt, al, ws, cw) ==
    [company_name |-> Str(<<"A">>),
     inputs |-> [linkedin_url |-> Str(<<"L">>), website_domain |-> Str(<<"W">>),
                 abn |-> PyNone],
     data_sources |->
        [k \in SectionKeySet |->
            CASE k = "linkedin_details" -> ld
              [] k = "linkedin_posts"   -> lp
              [] k = "website_traffic"  -> wt
              [] k = "abn_lookup"       -> al
              [] k = "web_search"       -> ws
              [] k = "creditorwatch"    -> cw]]

InitFmt ==
    /\ entry = "fmt"
    /\ env = [k \in KeySet |-> "up"]
    /\ run = 0
    /\ pc = "fmt_input"
    /\ \E ld \in SectionInputs("linkedin_details"),
          lp \in SectionInputs("linkedin_posts"),
          wt \in SectionInputs("website_traffic"),
          al \in SectionInputs("abn_lookup"),
          ws \in SectionInputs("web_search"),
          cw \in SectionInputs("creditorwatch") :
            results = FormatterInput(ld, lp, wt, al, ws, cw)
    /\ submitted = 0
    /\ future = [k \in KeySet |-> Unsubmitted]
    /\ yielded = {}
    /\ invoked = [k \in KeySet |-> 0]
    /\ summary = PyNone
    /\ returned = <<>>
    /\ formatted = NoCall
    /\ ui = <<>>
    /\ request = PyNone
    /\ received = [k \in KeySet |-> NoArgs]
    /\ iso = Idle
    /\ fs = Idle
    /\ calls = Idle
    /\ fn = Idle

FormatCall ==
    /\ pc = "fmt_input"
    /\ formatted' = format_results_for_report(results)
    /\ pc' = "fmt_done"
    /\ UNCHANGED <<others, request, received, entry, env, run, results, submitted, future, yielded,
                   invoked, summary, returned, ui>>

NextFmt == FormatCall

SpecFmt == InitFmt /\ [][NextFmt]_vars

(***************************************************************************)
(* creditorwatch_scraper.py: the adapter, the worker process and the       *)
(* subprocess boundary.  Two invocations of the boundary run concurrently, *)
(* each with its worker process; the file system holds the hand-off files. *)
(* A file's content is the sequence of JSON tokens written to it.          *)
(***************************************************************************)
Invs == {"i1", "i2"}

\* the paths mkstemp can produce
FileNames == {"cw_result_a.json", "cw_result_b.json"}

\* the timeout argument of each invocation: one second, and the default
TimeoutOf(i) == IF i = "i1" THEN 1 ELSE 300

\* the abn argument of each invocation
AbnOf(i) == IF i = "i1" THEN Str(<<"51", " ", "824753556">>)
            ELSE Str(<<"14", " ", "603455509">>)

\* what the worker finds: no credentials in the environment, a login that
\* times out, a profile page, a page with an empty body, a page whose
\* screenshot fails
Sites == {"no_credentials", "login_fails", "ok", "blank_page", "no_screenshot"}

\* s.replace(old, "")
Replace(s, old) == SelectSeq(s, LAMBDA f : f # old)

\* json.dump(v, f): the chunks written, and whether the encoder raised
\* TypeError on a value of some type
JTok(x) == [tok |-> x, s |-> <<>>]
JStr(frags) == [tok |-> "str", s |-> frags]

RECURSIVE JsonEncode(_), JsonEncodeItems(_, _)
JsonEncode(v) ==
    CASE v.t = "None" -> [ok |-> TRUE, toks |-> <<JTok("null")>>, type |-> ""]
      [] v.t = "bool" -> [ok |-> TRUE, type |-> "",
                          toks |-> <<JTok(IF v.v THEN "true" ELSE "false")>>]
      [] v.t = "str"  -> [ok |-> TRUE, toks |-> <<JStr(v.s)>>, type |-> ""]
      [] v.t = "dict" ->
            LET r == JsonEncodeItems(v.items, TRUE)
            IN  IF r.ok
                THEN [ok |-> TRUE, type |-> "",
                      toks |-> <<JTok("{")>> \o r.toks \o <<JTok("}")>>]
                ELSE [ok |-> FALSE, type |-> r.type,
                      toks |-> <<JTok("{")>> \o r.toks]
      [] v.t = "bytes" -> [ok |-> FALSE, toks |-> <<>>, type |-> "bytes"]

JsonEncodeItems(items, first) ==
    IF items = <<>> THEN [ok |-> TRUE, toks |-> <<>>, type |-> ""]
    ELSE LET pre == (IF first THEN <<>> ELSE <<JTok(",")>>)
                        \o <<JStr(<<items[1][1]>>), JTok(":")>>
             val == JsonEncode(items[1][2])
         IN  IF ~val.ok
             THEN [ok |-> FALSE, toks |-> pre \o val.toks, type |-> val.type]
             ELSE LET rest == JsonEncodeItems(Tail(items), FALSE)
                  IN  [ok |-> rest.ok, toks |-> pre \o val.toks \o rest.toks,
                       type |-> rest.type]

\* json.load(f): the value at position i of the tokens and the position
\* after it, or a failure
JsonFail == [ok |-> FALSE, value |-> PyNone, next |-> 0]

RECURSIVE JsonValue(_, _), JsonMembers(_, _, _)
JsonValue(toks, i) ==
    IF i > Len(toks) THEN JsonFail
    ELSE CASE toks[i].tok = "null"  -> [ok |-> TRUE, value |-> PyNone, next |-> i + 1]
           [] toks[i].tok = "true"  -> [ok |-> TRUE, value |-> PyBool(TRUE), next |-> i + 1]
           [] toks[i].tok = "false" -> [ok |-> TRUE, value |-> PyBool(FALSE), next |-> i + 1]
           [] toks[i].tok = "str"   -> [ok |-> TRUE, value |-> Str(toks[i].s), next |-> i + 1]
           [] toks[i].tok = "{"     -> JsonMembers(toks, i + 1, <<>>)
           [] OTHER                 -> JsonFail

JsonMembers(toks, i, acc) ==
    IF i > Len(toks) THEN JsonFail
    ELSE IF toks[i].tok = "}" /\ acc = <<>>
    THEN [ok |-> TRUE, value |-> Dict(acc), next |-> i + 1]
    ELSE IF toks[i].tok = "str" /\ i + 1 <= Len(toks) /\ toks[i + 1].tok = ":"
    THEN LET v == JsonValue(toks, i + 2)
             items == Append(acc, <<toks[i].s[1], v.value>>)
         IN  IF ~v.ok \/ v.next > Len(toks) THEN JsonFail
             ELSE IF toks[v.next].tok = "," THEN JsonMembers(toks, v.next + 1, items)
             ELSE IF toks[v.next].tok = "}"
             THEN [ok |-> TRUE, value |-> Dict(items), next |-> v.next + 1]
             ELSE JsonFail
    ELSE JsonFail

json_load(toks) ==
    LET v == JsonValue(toks, 1)
    IN  IF v.ok /\ v.next = Len(toks) + 1 THEN Return(v.value)
        ELSE Raise("JSONDecodeError", <<"Expecting value">>)

\* the dict extract_all_sections builds from the page
extract_all_sections(site, abn_clean) ==
    Dict(<< <<"abn", Str(abn_clean)>>,
            <<"company_name", IF site = "blank_page" THEN PyNone
                              ELSE Str(<<"company of ">> \o abn_clean)>>,
            <<"page_url", Str(<<"https://app.creditorwatch.com.au/reporting/organisation/profile/">>
                                  \o abn_clean)>>,
            <<"screenshot_bytes", IF site = "no_screenshot" THEN PyNone
                                  ELSE PyBytes(<<"png">>)>>,
            <<"extraction_timestamp", Str(<<"timestamp">>)>>,
            <<"full_text", IF site = "blank_page" THEN Str(<<>>)
                           ELSE Str(<<"text of ">> \o abn_clean)>> >>)

\* the cleaned text the model returns
process_with_gpt(full_text, abn) == Str(<<"cleaned ">> \o full_text.s)

get_creditorwatch_data(abn, site) ==
    LET abn_clean == Replace(abn.s, " ")
        data == extract_all_sections(site, abn_clean)
        screenshot_bytes == DictGet(data, "screenshot_bytes")
        full_text == DictGet(data, "full_text")
    IN  IF site = "no_credentials"
        THEN Raise("ValueError",
                   <<"CW_LOGIN_EMAIL and CW_LOGIN_PASSWORD must be set in .env file">>)
        ELSE IF site = "login_fails"
        THEN Raise("TimeoutError", <<"Timeout 30000ms exceeded.">>)
        ELSE IF Truthy(screenshot_bytes) /\ Truthy(full_text)
        THEN Return(Dict(DictWithout(data.items, "screenshot_bytes")
                            \o << <<"gpt_cleaned_text",
                                    process_with_gpt(full_text, abn_clean)>> >>))
        ELSE Return(data)

\* the two documents the worker writes
SuccessRecord(data) == Dict(<< <<"success", PyBool(TRUE)>>, <<"data", data>> >>)
FailureRecord(msg) == Dict(<< <<"success", PyBool(FALSE)>>, <<"error", Str(msg)>> >>)

\* the document the worker writes for the outcome r of the adapter
WorkerRecord(r) ==
    IF r.kind = "return" THEN SuccessRecord(r.value) ELSE FailureRecord(r.msg)

\* what the caller does with the outcome of json.load: the data of a
\* success record is returned, the error of a failure record is raised
ResultOutcome(result) ==
    IF result.kind = "raise" THEN result
    ELSE IF Truthy(DictGet(result.value, "success"))
    THEN Return(DictGet(result.value, "data"))
    ELSE Raise("Exception", PyStr(DictGet(result.value, "error")))

\* the file system
Absent == [exists |-> FALSE, content |-> <<>>, creator |-> "none", writer |-> "none"]
File(content, creator, writer) ==
    [exists |-> TRUE, content |-> content, creator |-> creator, writer |-> writer]

\* the point of a dump at which the buffer may reach the disk before the
\* file is closed
FlushPoints(toks) == {Len(toks) - 1}

InitIso ==
    /\ entry = "iso"
    /\ env = [k \in KeySet |-> "up"]
    /\ run = 0
    /\ pc = "idle"
    /\ results = PyNone
    /\ submitted = 0
    /\ future = [k \in KeySet |-> Unsubmitted]
    /\ yielded = {}
    /\ invoked = [k \in KeySet |-> 0]
    /\ summary = PyNone
    /\ returned = <<>>
    /\ formatted = NoCall
    /\ ui = <<>>
    /\ request = PyNone
    /\ received = [k \in KeySet |-> NoArgs]
    /\ iso = [i \in Invs |->
                [pc |-> "start", abn |-> AbnOf(i), timeout |-> TimeoutOf(i),
                 result_file |-> "", worker |-> "none", wpc |-> "adapter",
                 adapter |-> NoCall, record |-> PyNone, outcome |-> NoCall,
                 alive_at_timeout |-> FALSE, alive_at_check |-> FALSE,
                 read_from |-> "none", unlinked |-> "none"]]
    /\ fs = [n \in FileNames |-> Absent]
    /\ calls = Idle
    /\ fn = Idle

\* the call, and tempfile.mkstemp: a file that did not exist is created empty
\* a fixed path in place of mkstemp
Mkstemp_FixedPath(i) ==
    /\ iso[i].pc = "start"
    /\ LET n == "cw_result_a.json"
       IN  /\ fs' = [fs EXCEPT ![n] = File(<<>>, i, "none")]
           /\ iso' = [iso EXCEPT ![i] = [@ EXCEPT !.pc = "created",
                                                  !.result_file = n]]
    /\ UNCHANGED <<main_vars, calls, fn>>

Mkstemp(i) ==
    /\ iso[i].pc = "start"
    /\ \E n \in FileNames :
          /\ ~fs[n].exists
          /\ fs' = [fs EXCEPT ![n] = File(<<>>, i, "none")]
          /\ iso' = [iso EXCEPT ![i] = [@ EXCEPT !.pc = "created",
                                                 !.result_file = n]]
    /\ UNCHANGED <<main_vars, calls, fn>>

\* process.start()
Start(i) ==
    /\ iso[i].pc = "created"
    /\ iso' = [iso EXCEPT ![i] = [@ EXCEPT !.pc = "join", !.worker = "running"]]
    /\ UNCHANGED <<main_vars, fs, calls, fn>>

\* the worker: get_creditorwatch_data returns or raises
WorkerAdapter(i, site) ==
    /\ iso[i].worker = "running"
    /\ iso[i].wpc = "adapter"
    /\ LET r == get_creditorwatch_data(iso[i].abn, site)
       IN  iso' = [iso EXCEPT ![i] =
                     [@ EXCEPT !.adapter = r,
                               !.record = WorkerRecord(r),
                               !.wpc = "open"]]
    /\ UNCHANGED <<main_vars, fs, calls, fn>>

\* the worker: open(result_file, 'w') creates or truncates the file
WorkerOpen(i) ==
    /\ iso[i].worker = "running"
    /\ iso[i].wpc = "open"
    /\ LET n == iso[i].result_file
       IN  fs' = [fs EXCEPT ![n] =
                    File(<<>>, IF fs[n].exists THEN fs[n].creator ELSE i, i)]
    /\ iso' = [iso EXCEPT ![i].wpc = "dump"]
    /\ UNCHANGED <<main_vars, calls, fn>>

\* the worker: part of the document reaches the disk
WorkerFlush(i, cut) ==
    /\ iso[i].worker = "running"
    /\ iso[i].wpc = "dump"
    /\ LET n == iso[i].result_file
           enc == JsonEncode(iso[i].record)
       IN  /\ enc.ok
           /\ cut \in FlushPoints(enc.toks)
           /\ fs' = [fs EXCEPT ![n] =
                       File(SubSeq(enc.toks, 1, cut),
                            IF fs[n].exists THEN fs[n].creator ELSE i, i)]
    /\ iso' = [iso EXCEPT ![i].wpc = "flushed"]
    /\ UNCHANGED <<main_vars, calls, fn>>

\* a worker without the except clause: a TypeError of the encoder ends the
\* function with the chunks written so far in the file
WorkerDump_NoExcept(i) ==
    /\ iso[i].worker = "running"
    /\ iso[i].wpc \in {"dump", "flushed"}
    /\ LET n == iso[i].result_file
           enc == JsonEncode(iso[i].record)
       IN  /\ fs' = [fs EXCEPT ![n] =
                       File(enc.toks,
                            IF fs[n].exists THEN fs[n].creator ELSE i, i)]
           /\ iso' = [iso EXCEPT ![i].wpc = "written"]
    /\ UNCHANGED <<main_vars, calls, fn>>

\* the worker: json.dump ends and the file is closed; a TypeError of the
\* encoder leaves the chunks written so far and enters the except clause
WorkerDump(i) ==
    /\ iso[i].worker = "running"
    /\ iso[i].wpc \in {"dump", "flushed"}
    /\ LET n == iso[i].result_file
           enc == JsonEncode(iso[i].record)
       IN  /\ fs' = [fs EXCEPT ![n] =
                       File(enc.toks,
                            IF fs[n].exists THEN fs[n].creator ELSE i, i)]
           /\ iso' = [iso EXCEPT ![i] =
                        IF enc.ok
                        THEN [@ EXCEPT !.wpc = "written"]
                        ELSE [@ EXCEPT !.wpc = "open",
                                       !.record = FailureRecord(
                                          <<"Object of type ", enc.type,
                                            " is not JSON serializable">>)]]
    /\ UNCHANGED <<main_vars, calls, fn>>

\* the worker: the function returns and the process exits
WorkerExit(i) ==
    /\ iso[i].worker = "running"
    /\ iso[i].wpc = "written"
    /\ iso' = [iso EXCEPT ![i].worker = "exited"]
    /\ UNCHANGED <<main_vars, fs, calls, fn>>

\* the worker process dies of something that is not a Python Exception
WorkerKilled(i) ==
    /\ iso[i].worker = "running"
    /\ iso' = [iso EXCEPT ![i].worker = "killed"]
    /\ UNCHANGED <<main_vars, fs, calls, fn>>

\* process.join(timeout=timeout) returns: the worker is dead or the timeout
\* has elapsed
JoinReturns(i) ==
    /\ iso[i].pc = "join"
    /\ iso' = [iso EXCEPT ![i] =
                 [@ EXCEPT !.pc = "check",
                           !.alive_at_timeout = (iso[i].worker = "running")]]
    /\ UNCHANGED <<main_vars, fs, calls, fn>>

\* a timeout that is reported and leaves the worker running
CheckAlive_NoTerminate(i) ==
    /\ iso[i].pc = "check"
    /\ iso' = [iso EXCEPT ![i] =
                 IF iso[i].worker = "running"
                 THEN [@ EXCEPT !.pc = "finally",
                                !.alive_at_check = TRUE,
                                !.outcome = Raise("Exception",
                                    <<"CreditorWatch scraper ", "timed out after ",
                                      ToString(iso[i].timeout), " seconds">>)]
                 ELSE [@ EXCEPT !.pc = "exists"]]
    /\ UNCHANGED <<main_vars, fs, calls, fn>>

\* a test that lets a record the worker has written win over the timeout
CheckAlive_KeepsWritten(i) ==
    /\ iso[i].pc = "check"
    /\ iso' = [iso EXCEPT ![i] =
                 IF iso[i].worker = "running"
                 THEN IF fs[iso[i].result_file].content # <<>>
                      THEN [@ EXCEPT !.pc = "exists",
                                     !.worker = "terminated",
                                     !.alive_at_check = TRUE]
                      ELSE [@ EXCEPT !.pc = "finally",
                                     !.worker = "terminated",
                                     !.alive_at_check = TRUE,
                                     !.outcome = Raise("Exception",
                                         <<"CreditorWatch scraper ", "timed out after ",
                                           ToString(iso[i].timeout), " seconds">>)]
                 ELSE [@ EXCEPT !.pc = "exists"]]
    /\ UNCHANGED <<main_vars, fs, calls, fn>>

\* if process.is_alive(): terminate, join, raise
CheckAlive(i) ==
    /\ iso[i].pc = "check"
    /\ iso' = [iso EXCEPT ![i] =
                 IF iso[i].worker = "running"
                 THEN [@ EXCEPT !.pc = "finally",
                                !.worker = "terminated",
                                !.alive_at_check = TRUE,
                                !.outcome = Raise("Exception",
                                    <<"CreditorWatch scraper ", "timed out after ",
                                      ToString(iso[i].timeout), " seconds">>)]
                 ELSE [@ EXCEPT !.pc = "exists"]]
    /\ UNCHANGED <<main_vars, fs, calls, fn>>

\* a test of the existence of the file only
CheckFile_ExistsOnly(i) ==
    /\ iso[i].pc = "exists"
    /\ LET f == fs[iso[i].result_file]
       IN  iso' = [iso EXCEPT ![i] =
                     IF ~f.exists
                     THEN [@ EXCEPT !.pc = "finally",
                                    !.outcome = Raise("Exception",
                                        <<"CreditorWatch scraper process ended without returning data">>)]
                     ELSE [@ EXCEPT !.pc = "read"]]
    /\ UNCHANGED <<main_vars, fs, calls, fn>>

\* if not os.path.exists(result_file) or os.path.getsize(result_file) == 0
CheckFile(i) ==
    /\ iso[i].pc = "exists"
    /\ LET f == fs[iso[i].result_file]
       IN  iso' = [iso EXCEPT ![i] =
                     IF ~f.exists \/ f.content = <<>>
                     THEN [@ EXCEPT !.pc = "finally",
                                    !.outcome = Raise("Exception",
                                        <<"CreditorWatch scraper process ended without returning data">>)]
                     ELSE [@ EXCEPT !.pc = "read"]]
    /\ UNCHANGED <<main_vars, fs, calls, fn>>

\* json.load, then the return of the data or the raise of the error
Read(i) ==
    /\ iso[i].pc = "read"
    /\ LET f == fs[iso[i].result_file]
           result == json_load(f.content)
       IN  iso' = [iso EXCEPT ![i] =
                     [@ EXCEPT !.pc = "finally",
                               !.read_from = f.writer,
                               !.outcome = ResultOutcome(result)]]
    /\ UNCHANGED <<main_vars, fs, calls, fn>>

\* a clean-up that runs only when the call returns
Finally_OnReturnOnly(i) ==
    /\ iso[i].pc = "finally"
    /\ LET n == iso[i].result_file
       IN  IF fs[n].exists /\ iso[i].outcome.kind = "return"
           THEN /\ fs' = [fs EXCEPT ![n] = Absent]
                /\ iso' = [iso EXCEPT ![i] = [@ EXCEPT !.pc = "done",
                                                       !.unlinked = fs[n].creator]]
           ELSE /\ iso' = [iso EXCEPT ![i].pc = "done"]
                /\ UNCHANGED fs
    /\ UNCHANGED <<main_vars, calls, fn>>

\* finally: if os.path.exists(result_file): os.unlink(result_file)
Finally(i) ==
    /\ iso[i].pc = "finally"
    /\ LET n == iso[i].result_file
       IN  IF fs[n].exists
           THEN /\ fs' = [fs EXCEPT ![n] = Absent]
                /\ iso' = [iso EXCEPT ![i] = [@ EXCEPT !.pc = "done",
                                                       !.unlinked = fs[n].creator]]
           ELSE /\ iso' = [iso EXCEPT ![i].pc = "done"]
                /\ UNCHANGED fs
    /\ UNCHANGED <<main_vars, calls, fn>>

NextIso ==
    \/ \E i \in Invs : Mkstemp(i)
    \/ \E i \in Invs : Start(i)
    \/ \E i \in Invs, site \in Sites : WorkerAdapter(i, site)
    \/ \E i \in Invs : WorkerOpen(i)
    \/ \E i \in Invs, cut \in 1..40 : WorkerFlush(i, cut)
    \/ \E i \in Invs : WorkerDump(i)
    \/ \E i \in Invs : WorkerExit(i)
    \/ \E i \in Invs : WorkerKilled(i)
    \/ \E i \in Invs : JoinReturns(i)
    \/ \E i \in Invs : CheckAlive(i)
    \/ \E i \in Invs : CheckFile(i)
    \/ \E i \in Invs : Read(i)
    \/ \E i \in Invs : Finally(i)

SpecIso == InitIso /\ [][NextIso]_vars

(***************************************************************************)
(* Two calls of run_vetting_pipeline in progress at once, as two sessions  *)
(* of the app make them.  Each call has its parameters, its results dict,  *)
(* its executor and its futures; the services are the same for both.       *)
(***************************************************************************)
Callers == {"c1", "c2"}

\* the arguments of each call
RequestOf(c) ==
    IF c = "c1"
    THEN [company_name |-> Str(<<"A">>), linkedin_url |-> Str(<<"L">>),
          website_domain |-> Str(<<"W">>), abn |-> Str(<<"51 824 753 556">>)]
    ELSE [company_name |-> Str(<<"B">>), linkedin_url |-> Str(<<"M">>),
          website_domain |-> Str(<<"V">>), abn |-> PyNone]

\* the services during the two calls: the three Apify actors are up or
\* down together, the business register and the search answer
EnvsCalls ==
    {e \in Envs : /\ e["linkedin_posts"] = e["linkedin_details"]
                  /\ e["website_traffic"] = e["linkedin_details"]
                  /\ e["abn_lookup"] = "up"
                  /\ e["web_search"] = "up"}

InitCalls ==
    /\ entry = "calls"
    /\ env \in EnvsCalls
    /\ run = 0
    /\ pc = "idle"
    /\ results = PyNone
    /\ submitted = 0
    /\ future = [k \in KeySet |-> Unsubmitted]
    /\ yielded = {}
    /\ invoked = [k \in KeySet |-> 0]
    /\ summary = PyNone
    /\ returned = <<>>
    /\ formatted = NoCall
    /\ ui = <<>>
    /\ request = PyNone
    /\ received = [k \in KeySet |-> NoArgs]
    /\ iso = Idle
    /\ fs = Idle
    /\ calls = [c \in Callers |->
                  [pc |-> "idle", request |-> PyNone, results |-> PyNone,
                   submitted |-> 0,
                   future |-> [k \in KeySet |-> Unsubmitted],
                   received |-> [k \in KeySet |-> NoArgs],
                   yielded |-> {}, returned |-> NoCall, overlap |-> FALSE]]
    /\ fn = Idle

\* the call: the parameters are bound and the results dict is built
CCall(c) ==
    /\ calls[c].pc = "idle"
    /\ LET req == RequestOf(c)
       IN  calls' = [calls EXCEPT ![c] =
                       [@ EXCEPT !.pc = "submit",
                                 !.request = req,
                                 !.results = InitialResults(req.company_name,
                                                req.linkedin_url,
                                                req.website_domain, req.abn),
                                 !.overlap = \E d \in Callers \ {c} :
                                                calls[d].pc \in {"submit", "collect"}]]
    /\ UNCHANGED <<main_vars, iso, fs, fn>>

\* one iteration of the submit loop
CSubmit(c) ==
    /\ calls[c].pc = "submit"
    /\ LET key == Keys[calls[c].submitted + 1]
       IN  calls' = [calls EXCEPT ![c] =
                       [@ EXCEPT !.future[key] = Running,
                                 !.received[key] = TaskArgs(key, calls[c].request),
                                 !.submitted = @ + 1,
                                 !.pc = IF calls[c].submitted + 1 = Len(Keys)
                                        THEN "collect" ELSE "submit"]]
    /\ UNCHANGED <<main_vars, iso, fs, fn>>

\* the worker thread of key k of call c
CTaskFinish(c, k) ==
    /\ calls[c].future[k] = Running
    /\ calls' = [calls EXCEPT ![c].future[k] =
                    CallTask(k, calls[c].received[k], env[k])]
    /\ UNCHANGED <<main_vars, iso, fs, fn>>

\* a results dict that is one object for all calls: an outcome is stored
\* in the dict every call in progress holds
CCollect_SharedResults(c, k) ==
    /\ calls[c].pc = "collect"
    /\ k \notin calls[c].yielded
    /\ calls[c].future[k].kind \in {"return", "raise"}
    /\ calls' = [d \in Callers |->
                   IF d = c
                   THEN [calls[d] EXCEPT
                           !.yielded = @ \cup {k},
                           !.results.data_sources[k] =
                               RecordOutcome(@, calls[c].future[k])]
                   ELSE IF calls[d].pc \in {"submit", "collect"}
                   THEN [calls[d] EXCEPT
                           !.results.data_sources[k] =
                               RecordOutcome(@, calls[c].future[k])]
                   ELSE calls[d]]
    /\ UNCHANGED <<main_vars, iso, fs, fn>>

\* one iteration of the as_completed loop of call c
CCollect(c, k) ==
    /\ calls[c].pc = "collect"
    /\ k \notin calls[c].yielded
    /\ calls[c].future[k].kind \in {"return", "raise"}
    /\ calls' = [calls EXCEPT ![c] =
                   [@ EXCEPT !.yielded = @ \cup {k},
                             !.results.data_sources[k] =
                                 RecordOutcome(@, calls[c].future[k])]]
    /\ UNCHANGED <<main_vars, iso, fs, fn>>

\* the return of call c
CReturn(c) ==
    /\ calls[c].pc = "collect"
    /\ calls[c].yielded = KeySet
    /\ calls' = [calls EXCEPT ![c] =
                   [@ EXCEPT !.pc = "returned", !.returned = calls[c].results]]
    /\ UNCHANGED <<main_vars, iso, fs, fn>>

NextCalls ==
    \/ \E c \in Callers : CCall(c)
    \/ \E c \in Callers : CSubmit(c)
    \/ \E c \in Callers, k \in KeySet : CTaskFinish(c, k)
    \/ \E c \in Callers, k \in KeySet : CCollect(c, k)
    \/ \E c \in Callers : CReturn(c)

SpecCalls == InitCalls /\ [][NextCalls]_vars

(***************************************************************************)
(* abn_lookup.py: one call of lookup_company followed statement by         *)
(* statement, with the requests it sends to the register.  The search      *)
(* page and the details page are two services.                             *)
(***************************************************************************)
\* the values of the two arguments
NameArgs == {PyNone, Str(<<>>), Str(<<"A">>)}
AbnArgs == {PyNone, Str(<<>>), Str(<<"51 824 753 556">>)}

\* the states of each page of the register
PageStates == {"up", "down", "empty"}

\* a request sent by function f for x
Request(f, x) == [f |-> f, x |-> x]

\* the state of the pipeline while one adapter call is followed
InitMain(e) ==
    /\ entry = e
    /\ env = [k \in KeySet |-> "up"]
    /\ run = 0
    /\ pc = "idle"
    /\ results = PyNone
    /\ submitted = 0
    /\ future = [k \in KeySet |-> Unsubmitted]
    /\ yielded = {}
    /\ invoked = [k \in KeySet |-> 0]
    /\ summary = PyNone
    /\ returned = <<>>
    /\ formatted = NoCall
    /\ ui = <<>>
    /\ request = PyNone
    /\ received = [k \in KeySet |-> NoArgs]
    /\ iso = Idle
    /\ fs = Idle
    /\ calls = Idle

InitAbn ==
    /\ InitMain("abn")
    /\ \E company_name \in NameArgs, abn \in AbnArgs,
          search \in PageStates, details \in PageStates :
            fn = [pc |-> "validate", company_name |-> company_name, abn |-> abn,
                  search |-> search, details |-> details,
                  requests |-> <<>>, search_results |-> PyNone,
                  outcome |-> NoCall]

\* if not company_name and not abn: raise ValueError
LookupValidate ==
    /\ fn.pc = "validate"
    /\ fn' = IF ~Truthy(fn.company_name) /\ ~Truthy(fn.abn)
             THEN [fn EXCEPT !.pc = "done",
                             !.outcome = Raise("ValueError",
                                <<"Either company_name or abn must be provided">>)]
             ELSE [fn EXCEPT !.pc = "branch"]
    /\ UNCHANGED <<main_vars, iso, fs, calls>>

\* a branch that searches whenever there is a name
LookupBranch_NameFirst ==
    /\ fn.pc = "branch"
    /\ fn' = IF Truthy(fn.abn) /\ ~Truthy(fn.company_name)
             THEN [fn EXCEPT !.pc = "done",
                             !.requests = Append(@, Request("get_abn_details", fn.abn)),
                             !.outcome = get_abn_details(fn.abn, fn.details)]
             ELSE [fn EXCEPT !.pc = "search"]
    /\ UNCHANGED <<main_vars, iso, fs, calls>>

\* if abn: return get_abn_details(abn)
LookupBranch ==
    /\ fn.pc = "branch"
    /\ fn' = IF Truthy(fn.abn)
             THEN [fn EXCEPT !.pc = "done",
                             !.requests = Append(@, Request("get_abn_details", fn.abn)),
                             !.outcome = get_abn_details(fn.abn, fn.details)]
             ELSE [fn EXCEPT !.pc = "search"]
    /\ UNCHANGED <<main_vars, iso, fs, calls>>

\* search_results = search_abn_by_name(company_name); None if it is empty
LookupSearch ==
    /\ fn.pc = "search"
    /\ LET r == search_abn_by_name(fn.company_name, fn.search)
           sent == Append(fn.requests, Request("search_abn_by_name", fn.company_name))
       IN  fn' = IF r.kind = "raise"
                 THEN [fn EXCEPT !.pc = "done", !.requests = sent, !.outcome = r]
                 ELSE IF ~Truthy(r.value)
                 THEN [fn EXCEPT !.pc = "done", !.requests = sent,
                                 !.search_results = r.value,
                                 !.outcome = Return(PyNone)]
                 ELSE [fn EXCEPT !.pc = "first", !.requests = sent,
                                 !.search_results = r.value]
    /\ UNCHANGED <<main_vars, iso, fs, calls>>

\* details = get_abn_details(first_result["abn"]); return details
LookupFirst ==
    /\ fn.pc = "first"
    /\ LET first_result == fn.search_results.elems[1]
           abn == DictGet(first_result, "abn")
       IN  fn' = [fn EXCEPT !.pc = "done",
                            !.requests = Append(@, Request("get_abn_details", abn)),
                            !.outcome = get_abn_details(abn, fn.details)]
    /\ UNCHANGED <<main_vars, iso, fs, calls>>

NextAbn ==
    \/ LookupValidate
    \/ LookupBranch
    \/ LookupSearch
    \/ LookupFirst

SpecAbn == InitAbn /\ [][NextAbn]_vars

(***************************************************************************)
(* creditorwatch_scraper.py: one call of get_creditorwatch_data followed   *)
(* statement by statement, with the Playwright driver and the browser.     *)
(***************************************************************************)
\* what the call finds: the sites of the worker, and a browser that does
\* not launch, a context or page that cannot be created, a profile page
\* that does not load, a model that does not answer, an interrupt from the
\* keyboard during step 10
CwSites == Sites \cup {"launch_fails", "context_fails", "profile_fails",
                       "gpt_fails", "interrupted"}

\* the values of the abn argument
CwAbns == {AbnOf(i) : i \in Invs} \cup {Str(<<"51824753556">>)}

PlaywrightError == Raise("Error", <<"Target page, context or browser has been closed">>)

InitCw ==
    /\ InitMain("creditorwatch")
    /\ \E abn \in CwAbns, site \in CwSites :
          fn = [pc |-> "credentials", abn |-> abn, site |-> site,
                playwright |-> "none", browser |-> "none", tried |-> FALSE,
                steps |-> <<>>, data |-> PyNone, outcome |-> NoCall]

\* a function that looks at the credentials only when it logs in
CwCredentials_Unchecked ==
    /\ fn.pc = "credentials"
    /\ fn' = [fn EXCEPT !.pc = "playwright"]
    /\ UNCHANGED <<main_vars, iso, fs, calls>>

\* the credentials from the environment; ValueError when one is missing
CwCredentials ==
    /\ fn.pc = "credentials"
    /\ fn' = IF fn.site = "no_credentials"
             THEN [fn EXCEPT !.pc = "done",
                             !.outcome = Raise("ValueError",
                                <<"CW_LOGIN_EMAIL and CW_LOGIN_PASSWORD must be set in .env file">>)]
             ELSE [fn EXCEPT !.pc = "playwright"]
    /\ UNCHANGED <<main_vars, iso, fs, calls>>

\* with sync_playwright() as p
CwPlaywright ==
    /\ fn.pc = "playwright"
    /\ fn' = [fn EXCEPT !.pc = "launch", !.playwright = "started"]
    /\ UNCHANGED <<main_vars, iso, fs, calls>>

\* browser = p.chromium.launch(headless=True)
CwLaunch ==
    /\ fn.pc = "launch"
    /\ fn' = IF fn.site = "launch_fails"
             THEN [fn EXCEPT !.pc = "exit_with", !.outcome = PlaywrightError]
             ELSE [fn EXCEPT !.pc = "context", !.browser = "open",
                             !.steps = Append(@, "launch")]
    /\ UNCHANGED <<main_vars, iso, fs, calls>>

\* context = browser.new_context(); page = context.new_page(): the two
\* statements between the launch and the try
CwContext ==
    /\ fn.pc = "context"
    /\ fn' = IF fn.site = "context_fails"
             THEN [fn EXCEPT !.pc = "exit_with", !.outcome = PlaywrightError]
             ELSE [fn EXCEPT !.pc = "login", !.tried = TRUE,
                             !.steps = Append(@, "new_page")]
    /\ UNCHANGED <<main_vars, iso, fs, calls>>

\* steps 1 to 6 of the try: the login page, the email, the password, the
\* wait for the dashboard
CwLogin ==
    /\ fn.pc = "login"
    /\ fn' = IF fn.site \in {"login_fails", "no_credentials"}
             THEN [fn EXCEPT !.pc = "finally", !.steps = Append(@, "login"),
                             !.outcome = Raise("TimeoutError",
                                               <<"Timeout 30000ms exceeded.">>)]
             ELSE [fn EXCEPT !.pc = "profile", !.steps = Append(@, "login")]
    /\ UNCHANGED <<main_vars, iso, fs, calls>>

\* steps 7 and 8: the profile page of the ABN and the wait for its heading
CwProfile ==
    /\ fn.pc = "profile"
    /\ fn' = IF fn.site = "profile_fails"
             THEN [fn EXCEPT !.pc = "finally", !.steps = Append(@, "profile"),
                             !.outcome = Raise("TimeoutError",
                                               <<"Timeout 15000ms exceeded.">>)]
             ELSE [fn EXCEPT !.pc = "extract", !.steps = Append(@, "profile")]
    /\ UNCHANGED <<main_vars, iso, fs, calls>>

\* step 9: data = extract_all_sections(page, abn_clean)
CwExtract ==
    /\ fn.pc = "extract"
    /\ fn' = [fn EXCEPT !.pc = "gpt", !.steps = Append(@, "extract"),
                        !.data = extract_all_sections(
                                    IF fn.site \in {"blank_page", "no_screenshot"}
                                    THEN fn.site ELSE "ok",
                                    Replace(fn.abn.s, " "))]
    /\ UNCHANGED <<main_vars, iso, fs, calls>>

\* step 10 and the return: the cleaned text replaces the screenshot when
\* there is a screenshot and a text
CwPostProcess ==
    /\ fn.pc = "gpt"
    /\ LET screenshot_bytes == DictGet(fn.data, "screenshot_bytes")
           full_text == DictGet(fn.data, "full_text")
           gpt_cleaned_text ==
               IF fn.site = "gpt_fails"
               THEN Str(<<"[GPT processing error: ">> \o Cause \o <<"]">>)
               ELSE process_with_gpt(full_text, Replace(fn.abn.s, " "))
           data == IF Truthy(screenshot_bytes) /\ Truthy(full_text)
                   THEN Dict(DictWithout(fn.data.items, "screenshot_bytes")
                                \o << <<"gpt_cleaned_text", gpt_cleaned_text>> >>)
                   ELSE fn.data
       IN  fn' = IF fn.site = "interrupted"
                 THEN [fn EXCEPT !.pc = "finally", !.steps = Append(@, "gpt"),
                                 !.outcome = Raise("KeyboardInterrupt", <<>>)]
                 ELSE [fn EXCEPT !.pc = "finally", !.data = data,
                                 !.steps = Append(@, "gpt"),
                                 !.outcome = Return(data)]
    /\ UNCHANGED <<main_vars, iso, fs, calls>>

\* a function whose close is the last statement of the try
CwFinally_OnSuccessOnly ==
    /\ fn.pc = "finally"
    /\ fn' = IF fn.outcome.kind = "return"
             THEN [fn EXCEPT !.pc = "exit_with", !.browser = "closed",
                             !.steps = Append(@, "close")]
             ELSE [fn EXCEPT !.pc = "exit_with"]
    /\ UNCHANGED <<main_vars, iso, fs, calls>>

\* finally: browser.close()
CwFinally ==
    /\ fn.pc = "finally"
    /\ fn' = [fn EXCEPT !.pc = "exit_with", !.browser = "closed",
                        !.steps = Append(@, "close")]
    /\ UNCHANGED <<main_vars, iso, fs, calls>>

\* the end of the with block: the driver is stopped.  What becomes of a
\* browser the function has not closed is not decided by the function.
CwExitWith ==
    /\ fn.pc = "exit_with"
    /\ \E left \in {"open", "closed"} :
          fn' = [fn EXCEPT !.pc = "done", !.playwright = "stopped",
                           !.browser = IF fn.browser = "open" THEN left ELSE @]
    /\ UNCHANGED <<main_vars, iso, fs, calls>>

NextCw ==
    \/ CwCredentials
    \/ CwPlaywright
    \/ CwLaunch
    \/ CwContext
    \/ CwLogin
    \/ CwProfile
    \/ CwExtract
    \/ CwPostProcess
    \/ CwFinally
    \/ CwExitWith

SpecCw == InitCw /\ [][NextCw]_vars

(***************************************************************************)
(* Properties                                                              *)
(***************************************************************************)
Raised == {k \in KeySet : future[k].kind = "raise"}
Returned == {k \in KeySet : future[k].kind = "return"}

SameRequest(a, b) == a.company_name = b.company_name /\ a.inputs = b.inputs

\* the header fragments of a text, in the order they occur
IsHeader(f) == \E k \in SectionKeySet : f = SectionHeader(k)[1]
HeadersOf(text) == SelectSeq(text, IsHeader)

\* the fragments of a text between the header of section k and the next header
BodyOf(text, k) ==
    LET at == CHOOSE i \in DOMAIN text : text[i] = SectionHeader(k)[1]
        later == {j \in DOMAIN text : j > at /\ IsHeader(text[j])}
        stop == IF later = {} THEN Len(text) + 2
                ELSE CHOOSE j \in later : \A l \in later : j <= l
    IN  SubSeq(text, at + 2, stop - 2)

IsMarkerWith(body, message) ==
    \/ body = <<"[Data unavailable: ">> \o message \o <<"]">>
    \/ body = <<"[Skipped: ">> \o message \o <<"]">>

\* C1: every result run_vetting_pipeline has returned holds exactly one entry
\* for each key of the tasks list, and none of them is pending.
C1_OneSettledEntryPerKey ==
    \A i \in DOMAIN returned :
        /\ DOMAIN returned[i].data_sources = KeySet
        /\ \A k \in KeySet : returned[i].data_sources[k].status # "pending"

C1_Witness ==
    \E i \in DOMAIN returned :
        /\ \E k \in KeySet : returned[i].data_sources[k].status = "error"
        /\ \E k \in KeySet : returned[i].data_sources[k].status = "success"

\* C2: no adapter exception leaves run_vetting_pipeline, and when the call
\* has returned the entry of every adapter that raised has status "error",
\* the exception's message as error, and data None.
C2_FailuresAreCaptured ==
    /\ pc # "raised"
    /\ pc = "returned" =>
          \A k \in Raised :
              results.data_sources[k] =
                  [status |-> "error", data |-> PyNone,
                   error |-> Str(future[k].msg)]

C2_Witness == pc = "returned" /\ Raised = KeySet

\* C3: when the call has returned, every adapter was invoked once and ran to
\* completion, and its entry is the one its own outcome gives with every
\* other service up, whichever adapters failed.
AloneDown(k) == [j \in KeySet |-> IF j = k THEN env[k] ELSE "up"]

C3_FailureIsolation ==
    pc = "returned" =>
        \A k \in KeySet :
            LET alone == RunTask(k, results, AloneDown(k))
            IN  /\ invoked[k] = 1
                /\ future[k] = alone
                /\ results.data_sources[k].status =
                      (IF alone.kind = "return" THEN "success" ELSE "error")
                /\ results.data_sources[k].data =
                      (IF alone.kind = "return" THEN alone.value ELSE PyNone)

C3_Witness ==
    /\ pc = "returned"
    /\ Raised = {"linkedin_details"}
    /\ \A k \in Returned : results.data_sources[k].status = "success"

\* C4: the success count of the Summary equals the number of adapters that
\* returned, for every set of adapters that raised.
C4_SuccessCountIsComplement ==
    pc = "returned" =>
        /\ summary.success_count = Cardinality(KeySet \ Raised)
        /\ summary.success_count = Cardinality(Returned)

C4_Witness ==
    /\ pc = "returned"
    /\ Cardinality(Raised) = 3
    /\ summary.success_count = 2

\* C5: when run_vetting_pipeline is called with an empty company name, no
\* adapter is invoked.
C5_EmptyCompanyInvokesNothing ==
    (results # PyNone /\ ~Truthy(results.company_name)) =>
        \A k \in KeySet : invoked[k] = 0

\* C6: the text format_results_for_report produces for the result of a run
\* has the six section headers, each once, in the fixed order.
C6_FixedSectionOrder ==
    (formatted # NoCall /\ returned # <<>>) =>
        /\ formatted.kind = "return"
        /\ HeadersOf(formatted.value.s) =
              [i \in DOMAIN SectionKeys |-> SectionHeader(SectionKeys[i])[1]]

\* C7: two calls of run_vetting_pipeline with the same request return the
\* same status, data and error for every key.
C7_SameRequestSameResult ==
    \A i, j \in DOMAIN returned :
        SameRequest(returned[i], returned[j]) =>
            returned[i].data_sources = returned[j].data_sources

C7_Witness ==
    /\ Len(returned) = 2
    /\ SameRequest(returned[1], returned[2])
    /\ \E k \in KeySet : returned[2].data_sources[k].status = "error"
    /\ \E k \in KeySet : returned[2].data_sources[k].status = "success"

\* C8: format_results_for_report, applied to the result run_vetting_pipeline
\* returned, returns a text and does not raise.
C8_FormatterNeverRaises ==
    (formatted # NoCall /\ returned # <<>>) => formatted.kind = "return"

\* C9: in the text the formatter returns no section body is empty, the body
\* of a section whose entry is "error" or "skipped" is a bracketed marker
\* around the entry's message, and the body of a successful section with an
\* empty payload is not a marker.
C9_MarkersForFailedSections ==
    pc = "fmt_done" =>
        /\ formatted.kind = "return"
        /\ \A k \in SectionKeySet :
              LET e == results.data_sources[k]
                  body == BodyOf(formatted.value.s, k)
              IN  /\ body # <<>>
                  /\ e.status \in {"error", "skipped"} =>
                        IsMarkerWith(body, PyStr(e.error))
                  /\ (e.status = "success" /\ ~Truthy(e.data)) =>
                        body[1] \notin {"[Data unavailable: ", "[Skipped: "}

C9_Witness ==
    /\ pc = "fmt_done"
    /\ results.data_sources["creditorwatch"].status = "skipped"
    /\ results.data_sources["web_search"].status = "error"
    /\ results.data_sources["abn_lookup"] = Success(PyNone)
    /\ results.data_sources["linkedin_posts"] = Success(List(<<>>))

\* C10: when app.main has finished a run that passed validation and in
\* which fewer than all sources succeeded, the report is on display.
C10_PartialFailureStillReports ==
    (entry = "app" /\ pc = "idle" /\ formatted # NoCall
        /\ success_count(results) < 5) =>
            \E i \in DOMAIN ui : ui[i] = St("markdown", <<"Vetting Report">>)

\* C14: when the call has returned, the adapter of each of the six sources,
\* CreditorWatch included, has been invoked exactly once.
C14_EverySourceInvokedOnce ==
    pc = "returned" =>
        \A k \in SectionKeySet : k \in DOMAIN invoked /\ invoked[k] = 1

\* C15: run_vetting_pipeline does not return while an adapter is running,
\* and when every adapter call ends a call that has started returns.
C15_JoinAll ==
    /\ [](pc = "returned" => \A k \in KeySet : future[k].kind \in {"return", "raise"})
    /\ (pc = "submit" ~> pc = "returned")

C15_Witness ==
    /\ pc = "collect"
    /\ yielded # {}
    /\ \E k \in KeySet : future[k] = Running

\* C16: the Summary shows success_count/total_count, total_count is the
\* number of keys whose entry is not "skipped", 0 <= success_count <=
\* total_count <= number of keys, and the denominator app.main shows is
\* that total_count.
C16_SummaryCounts ==
    /\ pc = "returned" =>
          /\ summary.total_count =
                Cardinality({k \in KeySet :
                                results.data_sources[k].status # "skipped"})
          /\ 0 <= summary.success_count
          /\ summary.success_count <= summary.total_count
          /\ summary.total_count <= Len(Keys)
    /\ (entry = "app" /\ pc = "idle" /\ formatted # NoCall
            /\ ui[1].call = "warning") =>
          /\ ui[1].text[2] = ToString(summary.success_count)
          /\ ui[1].text[4] = ToString(summary.total_count)

C16_Witness ==
    /\ entry = "app"
    /\ pc = "idle"
    /\ formatted # NoCall
    /\ ui[1].call = "warning"
    /\ summary.success_count = 3

\* C17: an adapter that lacks a field it requires is not recorded with the
\* status "error" of an external failure but as "skipped".
C17_MissingPrerequisiteIsSkipped ==
    pc = "returned" =>
        \A k \in KeySet :
            (future[k].kind = "raise" /\ future[k].exc = "ValueError") =>
                /\ results.data_sources[k].status # "error"
                /\ results.data_sources[k].status = "skipped"

\* C20: during a call the results record the arguments of the call, every
\* adapter that was invoked received the values of those arguments, and the
\* returned result still records them.
C20_RequestIsReadOnly ==
    pc \in {"submit", "collect", "returned"} =>
        /\ results.company_name = request.company_name
        /\ results.inputs = [linkedin_url |-> request.linkedin_url,
                             website_domain |-> request.website_domain,
                             abn |-> request.abn]
        /\ invoked["linkedin_details"] > 0 =>
              received["linkedin_details"] = <<request.linkedin_url>>
        /\ invoked["linkedin_posts"] > 0 =>
              received["linkedin_posts"][1] = request.linkedin_url
        /\ invoked["website_traffic"] > 0 =>
              received["website_traffic"] = <<request.website_domain>>
        /\ invoked["abn_lookup"] > 0 =>
              received["abn_lookup"] = <<request.company_name, request.abn>>
        /\ invoked["web_search"] > 0 =>
              received["web_search"] = <<request.company_name>>
        /\ pc = "returned" => returned[Len(returned)] = results

C20_Witness ==
    /\ pc = "returned"
    /\ request.abn = PyNone
    /\ request.company_name = Str(<<"A">>)
    /\ \A k \in KeySet : received[k] # NoArgs

\* the fragments sub occur consecutively in the text
Contains(text, sub) ==
    \E j \in 0..(Len(text) - Len(sub)) : SubSeq(text, j + 1, j + Len(sub)) = sub

WorkerAlive(i) == iso[i].worker = "running"

\* C11: a call whose worker was alive when the timeout of the join elapsed
\* ends with no worker alive and with an error whose message says "timed
\* out after <timeout>".
C11_TimeoutAlwaysReported ==
    \A i \in Invs :
        (iso[i].pc = "done" /\ iso[i].alive_at_timeout) =>
            /\ ~WorkerAlive(i)
            /\ iso[i].outcome.kind = "raise"
            /\ Contains(iso[i].outcome.msg,
                        <<"timed out after ", ToString(iso[i].timeout)>>)

\* C11 (amended): a call whose worker is alive at the is_alive() test that
\* follows the join has terminated the worker, which is dead from there to
\* the end of the call, and raises Exception("CreditorWatch scraper timed
\* out after <timeout> seconds").
C11_AliveAtCheckIsTerminated ==
    \A i \in Invs :
        (iso[i].pc \in {"finally", "done"} /\ iso[i].alive_at_check) =>
            /\ iso[i].worker = "terminated"
            /\ iso[i].outcome =
                  Raise("Exception", <<"CreditorWatch scraper ", "timed out after ",
                                     ToString(iso[i].timeout), " seconds">>)

C11_Witness ==
    \E i \in Invs :
        /\ iso[i].pc = "done"
        /\ iso[i].alive_at_check
        /\ iso[i].worker = "terminated"
        /\ iso[i].wpc = "adapter"
        /\ iso[i].timeout = 1

\* C12: the step that ends a call, on whatever path, leaves no file at the
\* path its mkstemp created.
C12_HandOffFileIsDeleted ==
    [][\A i \in Invs :
          (iso[i].pc # "done" /\ iso'[i].pc = "done") =>
              ~fs'[iso[i].result_file].exists]_vars

C12_Witness ==
    \E i, j \in Invs :
        /\ iso[i].pc = "done" /\ iso[j].pc = "done"
        /\ iso[i].outcome.kind = "raise" /\ iso[i].outcome.exc = "JSONDecodeError"
        /\ iso[j].alive_at_check
        /\ \A n \in FileNames : ~fs[n].exists

\* C13: a call whose worker ran to its end within the timeout returns the
\* payload get_creditorwatch_data returned in the worker, or raises with
\* the message of the exception get_creditorwatch_data raised.
C13_SameOutcomeAsAdapter ==
    \A i \in Invs :
        (iso[i].pc = "done" /\ iso[i].worker = "exited"
            /\ ~iso[i].alive_at_timeout) =>
            /\ iso[i].adapter.kind = "return" =>
                  iso[i].outcome = Return(iso[i].adapter.value)
            /\ iso[i].adapter.kind = "raise" =>
                  /\ iso[i].outcome.kind = "raise"
                  /\ iso[i].outcome.msg = iso[i].adapter.msg

\* C18: two invocations in progress have distinct files, a file written by
\* a worker is the file of its invocation, a caller reads and deletes only
\* what its own invocation created and wrote, and a returned payload is
\* the payload of the call's own worker.
Active(i) == iso[i].pc \in {"created", "join", "check", "exists", "read", "finally"}

C18_HandOffIsExclusive ==
    /\ \A i, j \in Invs :
          (i # j /\ Active(i) /\ Active(j)) =>
              iso[i].result_file # iso[j].result_file
    /\ \A n \in FileNames :
          (fs[n].exists /\ fs[n].writer # "none") =>
              /\ fs[n].creator = fs[n].writer
              /\ iso[fs[n].writer].result_file = n
    /\ \A i \in Invs :
          /\ iso[i].read_from \in {"none", i}
          /\ iso[i].unlinked \in {"none", i}
          /\ iso[i].outcome.kind = "return" =>
                /\ iso[i].adapter.kind = "return"
                /\ iso[i].outcome.value = iso[i].adapter.value
                /\ DictGet(iso[i].outcome.value, "abn")
                      = Str(Replace(AbnOf(i).s, " "))

C18_Witness ==
    /\ \A i \in Invs : iso[i].pc = "done" /\ iso[i].outcome.kind = "return"
    /\ iso["i1"].outcome # iso["i2"].outcome
    /\ iso["i1"].result_file # iso["i2"].result_file

\* C19: the results dict of a call, while another call with other
\* arguments is in progress, records the call's own arguments and, under
\* each key collected so far, the outcome of the adapter called with the
\* call's own arguments, and nothing under the other keys; the result
\* returned is that dict.
C19_ResultsAreNotShared ==
    \A c \in Callers :
        calls[c].pc \in {"submit", "collect", "returned"} =>
            LET r == calls[c].results
                req == RequestOf(c)
            IN  /\ r.company_name = req.company_name
                /\ r.inputs = [linkedin_url |-> req.linkedin_url,
                               website_domain |-> req.website_domain,
                               abn |-> req.abn]
                /\ \A k \in KeySet :
                      r.data_sources[k] =
                          IF k \in calls[c].yielded
                          THEN RecordOutcome(PendingEntry,
                                   CallTask(k, TaskArgs(k, req), env[k]))
                          ELSE PendingEntry
                /\ calls[c].pc = "returned" =>
                      /\ calls[c].returned = r
                      /\ calls[c].yielded = KeySet

C19_Witness ==
    /\ \A c \in Callers : calls[c].pc = "returned"
    /\ calls["c2"].overlap
    /\ \E k \in KeySet :
          /\ calls["c1"].returned.data_sources[k].status = "success"
          /\ calls["c1"].returned.data_sources[k]
                # calls["c2"].returned.data_sources[k]

\* C21: during the fan-in a step that changes the results changes the
\* entry of one key only, the key of a finished task that is yielded by
\* that step; the entry was "pending" before and is not "pending" after,
\* so no entry is written twice and no task writes another key's entry.
C21_WritesAreKeyPartitioned ==
    [][(pc = "collect" /\ results' # results) =>
          \E k \in KeySet :
              /\ k \notin yielded
              /\ yielded' = yielded \cup {k}
              /\ future[k].kind \in {"return", "raise"}
              /\ results.data_sources[k] = PendingEntry
              /\ results'.data_sources[k].status # "pending"
              /\ results'.data_sources[k] = RecordOutcome(PendingEntry, future[k])
              /\ \A j \in KeySet \ {k} :
                    results'.data_sources[j] = results.data_sources[j]
              /\ results'.company_name = results.company_name
              /\ results'.inputs = results.inputs]_vars

C21_Witness ==
    /\ pc = "collect"
    /\ Cardinality(yielded) = 2
    /\ \E k \in KeySet : future[k] = Running
    /\ \E k \in KeySet \ yielded : future[k].kind = "raise"
    /\ \A k \in yielded : results.data_sources[k].status = "success"

\* C27: in a returned result every entry has status "success" or "error";
\* a "success" entry has error None, an "error" entry has data None and a
\* str as its error, and no entry has both data and error set.
C27_EntryFieldsAgreeWithStatus ==
    \A n \in 1..Len(returned) :
        \A k \in KeySet :
            LET e == returned[n].data_sources[k]
            IN  /\ e.status \in {"success", "error"}
                /\ e.status = "success" => e.error = PyNone
                /\ e.status = "error" => e.data = PyNone /\ e.error.t = "str"
                /\ ~(e.data # PyNone /\ e.error # PyNone)

C27_Witness ==
    /\ pc = "returned"
    /\ \E k \in KeySet : results.data_sources[k].status = "error"
    /\ \E k \in KeySet : /\ results.data_sources[k].status = "success"
                         /\ results.data_sources[k].data = PyNone
    /\ returned[Len(returned)] = results

\* a dict with the same keys and values, inserted in the opposite order
Reverse(seq) == [i \in 1..Len(seq) |-> seq[Len(seq) + 1 - i]]
Reinserted(e) ==
    IF e.status = "success" /\ e.data.t = "dict"
    THEN [e EXCEPT !.data = Dict(Reverse(e.data.items))]
    ELSE e

\* C22: the text the formatter returns is the text it returns for the
\* result whose success payloads hold the same keys and values inserted in
\* another order.
C22_StableKeyOrder ==
    pc = "fmt_done" =>
        format_results_for_report(
            [results EXCEPT !.data_sources =
                [k \in SectionKeySet |-> Reinserted(results.data_sources[k])]])
          = formatted

\* C23: for a successful CreditorWatch entry the body of the section is
\* the gpt_cleaned_text, fragment for fragment, when it is present and not
\* empty; otherwise it is the JSON text of the payload without the key
\* full_text; in both cases neither that key nor the raw text is in it.
C23_CreditorWatchBody ==
    (pc = "fmt_done" /\ results.data_sources["creditorwatch"].status = "success") =>
        /\ formatted.kind = "return"
        /\ LET data == results.data_sources["creditorwatch"].data
               gpt == DictGet(data, "gpt_cleaned_text")
               raw == DictGet(data, "full_text")
               body == BodyOf(formatted.value.s, "creditorwatch")
           IN  /\ (gpt.t = "str" /\ gpt.s # <<>>) => body = gpt.s
               /\ ~(gpt.t = "str" /\ gpt.s # <<>>) =>
                     /\ body[1] \in {"{", "{}"}
                     /\ \A key \in {data.items[i][1] : i \in DOMAIN data.items} \ {"full_text"} :
                           \E j \in DOMAIN body : body[j] = key
               /\ \A j \in DOMAIN body :
                     /\ body[j] # "full_text"
                     /\ raw.t = "str" => \A l \in DOMAIN raw.s : body[j] # raw.s[l]

C23_Witness ==
    /\ pc = "fmt_done"
    /\ LET e == results.data_sources["creditorwatch"]
       IN  /\ e.status = "success"
           /\ DictGet(e.data, "full_text") = Str(<<"raw page text">>)
           /\ DictGet(e.data, "gpt_cleaned_text") = Str(<<>>)
           /\ DictGet(e.data, "abn") # PyNone

\* C24: while the call has not deleted it, the file of a worker that
\* exited on its own holds one JSON document and nothing else: the failure
\* record with the message of the exception the adapter raised, or the
\* success record with the payload the adapter returned, or, when that
\* payload cannot be serialized, the failure record alone.
C24_OneOutcomeRecord ==
    \A i \in Invs :
        (iso[i].worker = "exited" /\ iso[i].pc # "done") =>
            LET f == fs[iso[i].result_file]
                doc == json_load(f.content)
            IN  /\ f.exists
                /\ doc.kind = "return"
                /\ iso[i].adapter.kind = "raise" =>
                      doc.value = FailureRecord(iso[i].adapter.msg)
                /\ iso[i].adapter.kind = "return" =>
                      IF JsonEncode(iso[i].adapter.value).ok
                      THEN doc.value = SuccessRecord(iso[i].adapter.value)
                      ELSE /\ DictGet(doc.value, "success") = PyBool(FALSE)
                           /\ DictGet(doc.value, "error").t = "str"
                           /\ Len(doc.value.items) = 2

C24_Witness ==
    \E i \in Invs :
        /\ iso[i].worker = "exited"
        /\ iso[i].pc = "read"
        /\ iso[i].adapter.kind = "return"
        /\ ~JsonEncode(iso[i].adapter.value).ok
        /\ fs[iso[i].result_file].content = JsonEncode(iso[i].record).toks

\* C25: the file is tested and read only when the worker is not alive; a
\* call whose worker was alive when the timeout of the join elapsed ends
\* with the timeout error, and a payload is returned only by a call whose
\* worker was not alive at that moment.
C25_PayloadOnlyBeforeTimeout ==
    \A i \in Invs :
        /\ iso[i].pc \in {"exists", "read"} => ~WorkerAlive(i)
        /\ (iso[i].pc \in {"finally", "done"} /\ iso[i].alive_at_timeout) =>
              /\ iso[i].outcome.kind = "raise"
              /\ iso[i].read_from = "none"
        /\ iso[i].outcome.kind = "return" => ~iso[i].alive_at_timeout

\* C25 (amended): the file is tested and read only when the worker has
\* exited or died; a call whose worker is alive at the is_alive() test
\* reads nothing and ends with the timeout error, whatever the worker has
\* written; a payload is returned only by a call whose worker had ended
\* at that test after writing its whole record, and it is read from the
\* file that worker wrote.
C25_ReadsOnlyAfterWorkerEnded ==
    \A i \in Invs :
        /\ iso[i].pc \in {"exists", "read"} => iso[i].worker \in {"exited", "killed"}
        /\ iso[i].alive_at_check =>
              /\ iso[i].outcome.kind = "raise"
              /\ Contains(iso[i].outcome.msg, <<"timed out after ">>)
              /\ iso[i].read_from = "none"
        /\ iso[i].outcome.kind = "return" =>
              /\ iso[i].worker \in {"exited", "killed"}
              /\ iso[i].wpc = "written"
              /\ ~iso[i].alive_at_check
              /\ iso[i].read_from = i

C25_Witness ==
    \E i \in Invs :
        /\ iso[i].pc = "done"
        /\ iso[i].alive_at_check
        /\ iso[i].wpc = "written"
        /\ iso[i].adapter.kind = "return"
        /\ iso[i].outcome.kind = "raise"

\* C26: a call whose worker was not alive when the join returned and left
\* a file that is missing or empty raises Exception("CreditorWatch scraper
\* process ended without returning data"); it returns no payload and its
\* test of the file is never blocked.
C26_NoOutcomeIsAnError ==
    \A i \in Invs :
        /\ (iso[i].pc = "finally" /\ ~iso[i].alive_at_timeout
              /\ (~fs[iso[i].result_file].exists
                    \/ fs[iso[i].result_file].content = <<>>)) =>
              iso[i].outcome =
                  Raise("Exception",
                        <<"CreditorWatch scraper process ended without returning data">>)
        /\ (iso[i].pc = "done" /\ ~iso[i].alive_at_timeout
              /\ iso[i].read_from = "none") =>
              iso[i].outcome =
                  Raise("Exception",
                        <<"CreditorWatch scraper process ended without returning data">>)
        /\ iso[i].pc = "exists" => ENABLED CheckFile(i)

C26_Witness ==
    \E i \in Invs :
        /\ iso[i].pc = "done"
        /\ iso[i].worker = "killed"
        /\ iso[i].wpc = "dump"
        /\ ~iso[i].alive_at_timeout
        /\ iso[i].outcome.kind = "raise"
        /\ iso[i].outcome.msg =
              <<"CreditorWatch scraper process ended without returning data">>

\* C29: a finished lookup_company call with an ABN has sent one request,
\* for the details of that ABN, and no search; with a name only it has
\* sent the search and then, when the search answered with rows, one
\* request for the details of the first row, and it returns None when
\* there is no row; with neither it has sent nothing and raises ValueError.
C29_AbnHasPriority ==
    fn.pc = "done" =>
        LET search == Request("search_abn_by_name", fn.company_name)
        IN  /\ Truthy(fn.abn) =>
                  /\ fn.requests = <<Request("get_abn_details", fn.abn)>>
                  /\ fn.outcome = get_abn_details(fn.abn, fn.details)
            /\ (~Truthy(fn.abn) /\ Truthy(fn.company_name)) =>
                  /\ fn.requests[1] = search
                  /\ fn.search = "down" =>
                        Len(fn.requests) = 1 /\ fn.outcome.kind = "raise"
                  /\ fn.search = "empty" =>
                        Len(fn.requests) = 1 /\ fn.outcome = Return(PyNone)
                  /\ fn.search = "up" =>
                        LET rows == fn.search_results.elems
                        IN  /\ fn.requests =
                                  <<search, Request("get_abn_details",
                                                    DictGet(rows[1], "abn"))>>
                            /\ fn.outcome =
                                  get_abn_details(DictGet(rows[1], "abn"), fn.details)
            /\ (~Truthy(fn.abn) /\ ~Truthy(fn.company_name)) =>
                  /\ fn.requests = <<>>
                  /\ fn.outcome.kind = "raise"
                  /\ fn.outcome.exc = "ValueError"
            /\ fn.outcome = lookup_company(fn.company_name, fn.abn, fn.search)
                  \/ fn.search # fn.details

C29_Witness ==
    /\ fn.pc = "done"
    /\ Truthy(fn.abn)
    /\ Truthy(fn.company_name)
    /\ fn.search = "up"
    /\ Len(fn.requests) = 1

\* C28: when the credentials are missing, get_creditorwatch_data raises its
\* ValueError with no driver started, no browser launched and no step of
\* the login taken; the worker writes that message as a failure record and
\* the caller that reads the record raises an exception with the same
\* message.  For the sites of the worker the call followed step by step
\* ends as the adapter of the worker does.
C28_MissingCredentialsFailFirst ==
    fn # Idle /\ "site" \in DOMAIN fn =>
       /\ fn.site = "no_credentials" =>
             /\ fn.playwright = "none" /\ fn.browser = "none" /\ fn.steps = <<>>
             /\ fn.pc \in {"credentials", "done"}
             /\ fn.pc = "done" =>
                   LET msg == <<"CW_LOGIN_EMAIL and CW_LOGIN_PASSWORD must be set in .env file">>
                       enc == JsonEncode(WorkerRecord(fn.outcome))
                   IN  /\ fn.outcome = Raise("ValueError", msg)
                       /\ enc.ok
                       /\ ResultOutcome(json_load(enc.toks)) = Raise("Exception", msg)
       /\ fn.pc = "done" /\ fn.site \in Sites =>
             fn.outcome = get_creditorwatch_data(fn.abn, fn.site)

C28_Witness ==
    /\ fn # Idle /\ "site" \in DOMAIN fn
    /\ fn.site = "no_credentials" /\ fn.pc = "done" /\ fn.outcome.kind = "raise"

====
